---------------------------- MODULE Spec2Model ----------------------------
(***************************************************************************)
(* A model of jira_export.Masseur (src/jira_export/masseur.py), of its     *)
(* command line entry point (src/jira_export/cli.py) and of the            *)
(* stand-alone script (src/massage_jira_project_export.py).                *)
(*                                                                         *)
(* Text is modelled by TLA+ strings: Len, \o and SubSeq work on them as on *)
(* sequences of characters.  A file system is a function from path strings *)
(* to file contents.  One behaviour is one run of main().                  *)
(***************************************************************************)
EXTENDS Naturals, Sequences, FiniteSets, TLC

VARIABLES
    pc,              \* the stage the run has reached
    exc,             \* the exception propagating out of massage ("" = none)
    called,          \* the Masseur methods called so far, in order
    entry,           \* which main() runs: "cli" or "script"
    debug,           \* Masseur.debug
    user_name_map,   \* Masseur.user_name_map: a sequence of <<old, new>>
    workspace,       \* Masseur._workspace
    export_zip_path, \* the path given to massage
    fs,              \* the file system: path -> content
    fs0              \* the file system when the run started

vars == <<pc, exc, called, entry, debug, user_name_map, workspace,
          export_zip_path, fs, fs0>>

---------------------------------------------------------------------------
(* Characters.  The three sentinel code points are not ASCII; each is      *)
(* written here as one character that occurs nowhere else in the model.    *)

FF == "\f"          \* '\x0c'
CR == "\r"          \* '\x0d'
U2622 == "%"        \* stands for the one character '☢'
U2623 == "#"        \* stands for the one character '☣'
U2624 == "~"        \* stands for the one character '☤'
APOS == "&apos;"

---------------------------------------------------------------------------
(* re.sub(pattern, repl, string) for a pattern that is a literal,          *)
(* non-empty text: the leftmost match is replaced, and the scan goes on    *)
(* behind the match, so matches never overlap.                             *)

RECURSIVE subFrom(_, _, _, _)
subFrom(pattern, repl, string, i) ==
    IF i > Len(string) THEN ""
    ELSE IF /\ i + Len(pattern) - 1 <= Len(string)
            /\ SubSeq(string, i, i + Len(pattern) - 1) = pattern
         THEN repl \o subFrom(pattern, repl, string, i + Len(pattern))
         ELSE SubSeq(string, i, i) \o subFrom(pattern, repl, string, i + 1)

sub(pattern, repl, string) == subFrom(pattern, repl, string, 1)

(* Whether text occurs in string.                                          *)
Contains(string, text) ==
    \E i \in 1..(Len(string) + 1 - Len(text)) :
        SubSeq(string, i, i + Len(text) - 1) = text

---------------------------------------------------------------------------
(* Paths.  A path is the sequence of the pieces its text falls into at the *)
(* '/' characters: '/tmp/w' is <<"", "tmp", "w">>, 'data/' is              *)
(* <<"data", "">>, 'e.zip' is <<"e.zip">>.  The text of two paths put      *)
(* together (a + b) joins the last piece of a and the first piece of b.    *)

plus(a, b) ==
    SubSeq(a, 1, Len(a) - 1) \o <<a[Len(a)] \o b[1]>> \o SubSeq(b, 2, Len(b))

Slash == <<"", "">>

(* re.sub on a path, for a pattern without '/'.                            *)
sub_path(pattern, repl, path) ==
    [i \in DOMAIN path |-> sub(pattern, repl, path[i])]

None == <<"<None>">>

workspace_path(path) ==
    IF path = None THEN workspace ELSE plus(plus(workspace, Slash), path)

data_path(path) ==
    IF path = None THEN workspace_path(<<"data">>)
    ELSE workspace_path(plus(<<"data", "">>, path))

config_xml_path == workspace_path(<<"config.xml">>)
data_zip_path == data_path(<<"", "data.zip">>)
objects_xml_path == data_path(<<"", "activeobjects.xml">>)
entities_xml_path == data_path(<<"", "entities.xml">>)

prepare_output_path_in_place(path) == path

_prepare_output_path(path) ==
    IF ~debug THEN path ELSE sub_path(".xml", ".proc.xml", path)

(* pack's name for the new archive: make_archive appends '.zip' to the     *)
(* base name it is given.                                                  *)
outfile_stripped(path) == sub_path(".zip", "", path)

outfile(path) == sub_path(".zip", ".fixed_users", path)

archive_name(path) == plus(outfile(path), <<".zip">>)

---------------------------------------------------------------------------
(* The file system, a function from paths to what is there.  The operating *)
(* system reads 'a//b' as 'a/b': an empty piece counts only in front.      *)

Dir == [type |-> "dir"]
Bytes == [type |-> "bytes"]
Zip(members) == [type |-> "zip", members |-> members]
Xml(elems) == [type |-> "xml", elems |-> elems]

RECURSIVE normpath(_)
normpath(path) ==
    IF Len(path) <= 1 THEN path
    ELSE IF path[Len(path)] = "" THEN normpath(SubSeq(path, 1, Len(path) - 1))
    ELSE Append(normpath(SubSeq(path, 1, Len(path) - 1)), path[Len(path)])

dirname(path) == SubSeq(path, 1, Len(path) - 1)

exists(f, path) == normpath(path) \in DOMAIN f
isfile(f, path) == exists(f, path) /\ f[normpath(path)].type # "dir"
isdir(f, path) ==
    \/ Len(path) = 0
    \/ path = <<"">>
    \/ exists(f, path) /\ f[normpath(path)].type = "dir"
is_zipfile(f, path) == exists(f, path) /\ f[normpath(path)].type = "zip"
read(f, path) == f[normpath(path)]

(* open(path, 'w') and write: the directory has to exist.                  *)
can_write(f, path) == isdir(f, dirname(normpath(path)))

write(f, path, content) ==
    [p \in DOMAIN f \cup {normpath(path)} |->
        IF p = normpath(path) THEN content ELSE f[p]]

unlink(f, path) == [p \in DOMAIN f \ {normpath(path)} |-> f[p]]

under(path, dir) == Len(dir) <= Len(path) /\ SubSeq(path, 1, Len(dir)) = dir

rmtree(f, dir) == [p \in {q \in DOMAIN f : ~under(q, normpath(dir))} |-> f[p]]

(* ZipFile.extractall(path=dir): every member is written below dir, its    *)
(* directories are made as needed.  A member's name is a path.             *)
RECURSIVE makedirs(_, _)
makedirs(f, dir) ==
    IF isdir(f, dir) THEN f
    ELSE write(makedirs(f, dirname(normpath(dir))), dir, Dir)

RECURSIVE extract(_, _, _, _)
extract(f, dir, members, names) ==
    IF names = {} THEN f
    ELSE LET name == CHOOSE n \in names : TRUE
             target == normpath(plus(plus(dir, Slash), name))
         IN  extract(write(makedirs(f, dirname(target)), target, members[name]),
                     dir, members, names \ {name})

extractall(f, zip_path, dir) ==
    LET members == read(f, zip_path).members
    IN  extract(makedirs(f, dir), dir, members, DOMAIN members)

(* make_archive(base, 'zip', root): every file below root, by its name     *)
(* relative to root.                                                       *)
relpath(path, root) == SubSeq(path, Len(root) + 1, Len(path))

tree(f, root) ==
    LET files == {p \in DOMAIN f : under(p, root) /\ p # root /\ f[p].type # "dir"}
    IN  [n \in {relpath(p, root) : p \in files} |-> f[root \o n]]

---------------------------------------------------------------------------
(* The user name map: a dict in insertion order, here a sequence of        *)
(* <<old, new>> with distinct old names.                                   *)

keys(map) == {map[i][1] : i \in DOMAIN map}
get(map, key) == map[CHOOSE i \in DOMAIN map : map[i][1] = key][2]

---------------------------------------------------------------------------
(* XML documents.  A document is the sequence of its elements in document  *)
(* order, element 1 being the root; parent is the index of the element's   *)
(* parent (0 for the root).  An element of config.xml has a tag, a text    *)
(* ("" when it has none) and an attribute value; an element of             *)
(* entities.xml has one attribute, name="value".                           *)

(* root.findall('.//' + name): the descendants of the root with that tag;  *)
(* the root itself is not among them.                                      *)
findall_tag(elems, name) ==
    {i \in DOMAIN elems : i # 1 /\ elems[i].tag = name}

(* root.findall('.//*[@name]'): the descendants carrying the attribute.    *)
findall_attr(elems, name) ==
    {i \in DOMAIN elems : i # 1 /\ elems[i].name = name}

CONFIG_TAGS == <<"administratorUser", "author", "lead", "memberUser", "owner",
                 "username">>

new_text_cascading(map, text) ==
    IF get(map, text) \in keys(map) THEN get(map, get(map, text)) ELSE get(map, text)

(* self.user_name_map[elem.text]                                           *)
new_text(map, text) == get(map, text)

_update_children(map, elems, name) ==
    [i \in DOMAIN elems |->
        IF i \in findall_tag(elems, name) /\ elems[i].text \in keys(map)
        THEN [elems[i] EXCEPT !.text = new_text(map, elems[i].text)]
        ELSE elems[i]]

RECURSIVE update_children_all(_, _, _)
update_children_all(map, elems, n) ==
    IF n = 0 THEN elems
    ELSE _update_children(map, update_children_all(map, elems, n - 1), CONFIG_TAGS[n])

IDENTITY_ATTRS == <<"author", "authorKey", "caller", "creator", "deltaFrom",
                    "deltaTo", "entityId", "lead", "lowerChildName",
                    "lowerUserName", "newvalue", "objectName", "oldvalue",
                    "owner", "roletypeparameter", "sourceName", "updateauthor",
                    "user", "username">>

QUOTE_ATTRS == <<"author", "body", "data", "deltaTo", "description",
                 "infoMessage", "name", "newstring", "oldstring",
                 "searchField", "summary", "title">>

update_value_substring(value, username, new) ==
    IF value = username THEN new ELSE sub(username, new, value)

(* The body of the loop over the map: one user name applied to one value.  *)
update_value(value, username, new) ==
    IF value = username THEN new
    ELSE sub(" " \o username \o " ", " " \o new \o " ", value)

(* for username in self.user_name_map: entries 1..n applied in order.      *)
RECURSIVE update_by_map(_, _, _)
update_by_map(map, value, n) ==
    IF n = 0 THEN value
    ELSE update_value(update_by_map(map, value, n - 1), map[n][1], map[n][2])

_update_attributes(map, elems, name) ==
    [i \in DOMAIN elems |->
        IF i \in findall_attr(elems, name)
        THEN [elems[i] EXCEPT !.value = update_by_map(map, elems[i].value, Len(map))]
        ELSE elems[i]]

RECURSIVE update_attributes_all(_, _, _)
update_attributes_all(map, elems, n) ==
    IF n = 0 THEN elems
    ELSE _update_attributes(map, update_attributes_all(map, elems, n - 1),
                            IDENTITY_ATTRS[n])

escape_quotes_none(elems, name) == elems

escape_quotes(elems, name) ==
    [i \in DOMAIN elems |->
        IF i \in findall_attr(elems, name)
        THEN [elems[i] EXCEPT !.value = sub("'", U2624, elems[i].value)]
        ELSE elems[i]]

RECURSIVE escape_quotes_all(_, _)
escape_quotes_all(elems, n) ==
    IF n = 0 THEN elems
    ELSE escape_quotes(escape_quotes_all(elems, n - 1), QUOTE_ATTRS[n])

encode_ff_only(content) == sub(FF, U2622, content)

(* The two substitutions on the text read, before it is parsed.            *)
encode(content) == sub(CR, U2623, sub(FF, U2622, content))

(* The three substitutions on the serialized text.                         *)
decode(content) == sub(U2624, APOS, sub(U2623, CR, sub(U2622, FF, content)))

(* A substitution on the text of a document acts on what lies between the *)
(* markup: here, on the attribute values.                                  *)
encode_all(elems) ==
    [i \in DOMAIN elems |-> [elems[i] EXCEPT !.value = encode(elems[i].value)]]

decode_all(elems) ==
    [i \in DOMAIN elems |-> [elems[i] EXCEPT !.value = decode(elems[i].value)]]

(* lxml's parser: a form feed is no character of XML 1.0 and is refused;   *)
(* a carriage return in an attribute value is read as a space.             *)
well_formed(elems) == \A i \in DOMAIN elems : ~Contains(elems[i].value, FF)

parse(elems) ==
    [i \in DOMAIN elems |-> [elems[i] EXCEPT !.value = sub(CR, " ", elems[i].value)]]

(* update_entities from the text read to the text written.  tostring       *)
(* writes these attribute values as they are: the values of the model hold *)
(* no '&', '<', '>' or '"'.  The last substitution ('--><' to '-->\n<')    *)
(* changes nothing: the documents of the model hold no comments.           *)
entities_rewritten(map, content) ==
    decode_all(
        escape_quotes_all(
            update_attributes_all(map, parse(encode_all(content)), Len(IDENTITY_ATTRS)),
            Len(QUOTE_ATTRS)))

config_rewritten(map, content) == update_children_all(map, content, Len(CONFIG_TAGS))

---------------------------------------------------------------------------
(* The run.  pc names the stage reached (the states of the orchestrator);  *)
(* exc is the exception that left massage, "" while there is none.         *)

raise(name, f) ==
    /\ exc' = name
    /\ fs' = f
    /\ pc' = pc

reach(stage, f) ==
    /\ pc' = stage
    /\ fs' = f
    /\ exc' = exc

settings == <<entry, debug, user_name_map, workspace, export_zip_path, fs0>>

unpack_outer_only ==
    /\ pc = "Created" /\ exc = ""
    /\ called' = Append(called, "unpack")
    /\ IF ~exists(fs, export_zip_path)
       THEN raise("FileNotFoundError", fs)
       ELSE IF ~is_zipfile(fs, export_zip_path)
       THEN raise("BadZipFile", fs)
       ELSE reach("Unpacked", extractall(fs, export_zip_path, workspace_path(None)))
    /\ UNCHANGED settings

unpack ==
    /\ pc = "Created" /\ exc = ""
    /\ called' = Append(called, "unpack")
    /\ IF ~exists(fs, export_zip_path)
       THEN raise("FileNotFoundError", fs)
       ELSE IF ~is_zipfile(fs, export_zip_path)
       THEN raise("BadZipFile", fs)
       ELSE LET outer == extractall(fs, export_zip_path, workspace_path(None))
            IN  IF ~exists(outer, data_zip_path)
                THEN raise("FileNotFoundError", outer)
                ELSE IF ~is_zipfile(outer, data_zip_path)
                THEN raise("BadZipFile", outer)
                ELSE reach("Unpacked", extractall(outer, data_zip_path, data_path(None)))
    /\ UNCHANGED settings

update_config ==
    /\ pc = "Unpacked" /\ exc = ""
    /\ called' = Append(called, "update_config")
    /\ LET in_path == config_xml_path
           out_path == _prepare_output_path(config_xml_path)
       IN  IF ~isfile(fs, in_path)
           THEN raise("OSError", fs)
           ELSE IF read(fs, in_path).type # "xml"
           THEN raise("XMLSyntaxError", fs)
           ELSE IF ~can_write(fs, out_path)
           THEN raise("FileNotFoundError", fs)
           ELSE reach("ConfigRewritten",
                      write(fs, out_path,
                            Xml(config_rewritten(user_name_map, read(fs, in_path).elems))))
    /\ UNCHANGED settings

update_entities ==
    /\ pc = "ConfigRewritten" /\ exc = ""
    /\ called' = Append(called, "update_entities")
    /\ LET in_path == entities_xml_path
           out_path == _prepare_output_path(entities_xml_path)
       IN  IF ~isfile(fs, in_path)
           THEN raise("FileNotFoundError", fs)
           ELSE IF \/ read(fs, in_path).type # "xml"
                   \/ ~well_formed(encode_all(read(fs, in_path).elems))
           THEN raise("XMLSyntaxError", fs)
           ELSE IF ~can_write(fs, out_path)
           THEN raise("FileNotFoundError", fs)
           ELSE reach("EntitiesRewritten",
                      write(fs, out_path,
                            Xml(entities_rewritten(user_name_map, read(fs, in_path).elems))))
    /\ UNCHANGED settings

NoMembers == [n \in {} |-> Bytes]

pack ==
    /\ pc = "EntitiesRewritten" /\ exc = "" /\ ~debug
    /\ called' = Append(called, "pack")
    /\ LET entities_xml_out_path == _prepare_output_path(entities_xml_path)
       IN  IF ~isfile(fs, objects_xml_path)
           THEN raise("FileNotFoundError", write(fs, data_zip_path, Zip(NoMembers)))
           ELSE LET data_zip == [n \in {<<"activeobjects.xml">>, <<"entities.xml">>} |->
                                    IF n = <<"activeobjects.xml">>
                                    THEN read(fs, objects_xml_path)
                                    ELSE read(fs, entities_xml_out_path)]
                    zipped == write(fs, data_zip_path, Zip(data_zip))
                    unlinked == unlink(unlink(zipped, objects_xml_path),
                                       entities_xml_out_path)
                    archive == archive_name(export_zip_path)
                IN  reach("Packed",
                          write(makedirs(unlinked, dirname(normpath(archive))), archive,
                                Zip(tree(unlinked, normpath(workspace_path(None))))))
    /\ UNCHANGED settings

(* massage has returned, or an exception has left it.                      *)
massage_returned ==
    /\ exc = ""
    /\ pc = "Packed" \/ (debug /\ pc = "EntitiesRewritten")

massage_over == exc # "" \/ massage_returned

(* cli.main: the with statement calls Masseur.__exit__ on every way out.   *)
exit ==
    /\ entry = "cli"
    /\ pc \notin {"Closed", "Terminated"}
    /\ massage_over
    /\ called' = Append(called, "__exit__")
    /\ fs' = IF debug THEN fs ELSE rmtree(fs, workspace_path(None))
    /\ pc' = "Closed"
    /\ UNCHANGED <<exc, settings>>

(* The script's main: massage is called on the instance, no with           *)
(* statement, so nothing calls __exit__ before the process ends.           *)
script_end ==
    /\ entry = "script"
    /\ pc \notin {"Closed", "Terminated"}
    /\ massage_over
    /\ pc' = "Terminated"
    /\ UNCHANGED <<exc, called, fs, settings>>

Next ==
    \/ unpack
    \/ update_config
    \/ update_entities
    \/ pack
    \/ exit
    \/ script_end

---------------------------------------------------------------------------
(* The inputs of a run.                                                    *)

MaxPathAtoms == 3
MaxLen == 5
MaxSentinelLen == 3
MaxElems == 2

RECURSIVE StringsOfLen(_, _)
StringsOfLen(atoms, n) ==
    IF n = 0 THEN {""}
    ELSE {a \o s : a \in atoms, s \in StringsOfLen(atoms, n - 1)}

Strings(atoms, n) == UNION {StringsOfLen(atoms, k) : k \in 0..n}

(* The dicts over the given names that rename each key to another name,    *)
(* their entries in every order.                                           *)
RECURSIVE MapsOfLen(_, _)
MapsOfLen(names, n) ==
    IF n = 0 THEN {<<>>}
    ELSE {Append(m, <<k, v>>) : m \in MapsOfLen(names, n - 1),
                                <<k, v>> \in {kv \in names \X names : kv[1] # kv[2]}}

Maps(names) ==
    {m \in UNION {MapsOfLen(names, k) : k \in 0..Cardinality(names)} :
        \A i, j \in DOMAIN m : m[i][1] = m[j][1] => i = j}

Usernames == {"a", "b"}
Entries == {"cli", "script"}
Workspaces == {<<"", "tmp", "w">>, <<"", "t.xml", "w">>}
Paths == {<<name>> : name \in Strings({"e", ".zip", ".fixed_users"}, MaxPathAtoms) \ {""}}

(* The scenario of the specification.                                      *)
ScenarioMap == << <<"alice", "bob">> >>

ScenarioConfig ==
    << [tag |-> "projectConfig", text |-> "", attr |-> "alice", parent |-> 0],
       [tag |-> "username", text |-> "alice", attr |-> "", parent |-> 1] >>

ScenarioEntities ==
    << [name |-> "date", value |-> "2017", parent |-> 0],
       [name |-> "user", value |-> "alice", parent |-> 1],
       [name |-> "description", value |-> " alice said 'hi' ", parent |-> 1] >>

(* What the export holds: each piece is there ("xml", "zip"), is there but *)
(* not of its format ("bytes"), or is missing ("absent").                  *)
Layouts ==
    {l \in [outer : {"absent", "bytes", "zip"}, config : {"absent", "bytes", "xml"},
            data : {"absent", "bytes", "zip"}, objects : {"absent", "bytes"},
            entities : {"absent", "bytes", "xml"}] :
        /\ l.outer # "zip" => l.config = "xml" /\ l.data = "zip"
        /\ l.data # "zip" => l.objects = "bytes" /\ l.entities = "xml"}

Complete ==
    [outer |-> "zip", config |-> "xml", data |-> "zip", objects |-> "bytes",
     entities |-> "xml"]

members(pairs) ==
    [n \in {p[1] : p \in pairs} |-> (CHOOSE p \in pairs : p[1] = n)[2]]

piece(name, kind, content) ==
    IF kind = "absent" THEN {}
    ELSE IF kind = "bytes" THEN {<<name, Bytes>>}
    ELSE {<<name, content>>}

export(layout, config, entities) ==
    Zip(members(
        piece(<<"config.xml">>, layout.config, Xml(config))
        \cup piece(<<"data", "data.zip">>, layout.data,
                   Zip(members(piece(<<"activeobjects.xml">>, layout.objects, Bytes)
                               \cup piece(<<"entities.xml">>, layout.entities, Xml(entities)))))))

(* The file system when main starts: the export at its path, and the       *)
(* directory mkdtemp has made.                                             *)
initial_fs(inp) ==
    LET tmp == [p \in {inp.workspace} |-> Dir]
    IN  IF inp.layout.outer = "absent" THEN tmp
        ELSE IF inp.layout.outer = "bytes" THEN write(tmp, inp.path, Bytes)
        ELSE write(tmp, inp.path, export(inp.layout, inp.config, inp.entities))

InitFrom(inp) ==
    /\ pc = "Created"
    /\ exc = ""
    /\ called = <<>>
    /\ entry = inp.entry
    /\ debug = inp.debug
    /\ user_name_map = inp.map
    /\ workspace = inp.workspace
    /\ export_zip_path = inp.path
    /\ fs = initial_fs(inp)
    /\ fs0 = initial_fs(inp)

(* Every layout, path, workspace and mode, with the scenario's documents.  *)
RunInputs ==
    [entry : Entries, debug : BOOLEAN, map : {ScenarioMap}, workspace : Workspaces,
     path : Paths, layout : Layouts, config : {ScenarioConfig},
     entities : {ScenarioEntities}]

Init == \E inp \in RunInputs : InitFrom(inp)

Spec == Init /\ [][Next]_vars

---------------------------------------------------------------------------
(* The inputs of the rewriting: complete exports whose documents and map   *)
(* range over bounded sets.                                                *)

Alphabet == {"a", " ", "'"}
SentinelAlphabet == {"a", FF, CR, U2622, U2623, U2624}
AttrNames == {"user", "author", "description", "key"}
TagNames == {"username", "lead", "name"}
Texts == {"", "a", "b"}

(* Documents of config.xml with at most n elements, in document order: the *)
(* parent of a new element is the element before it or one of that         *)
(* element's ancestors.                                                    *)
RECURSIVE ancestors(_, _)
ancestors(doc, i) ==
    IF i = 0 THEN {} ELSE {i} \cup ancestors(doc, doc[i].parent)

RECURSIVE ConfigDocsOfLen(_)
ConfigDocsOfLen(n) ==
    IF n = 1
    THEN {<<e>> : e \in [tag : TagNames, text : Texts, attr : {"a"}, parent : {0}]}
    ELSE {Append(doc, [tag |-> t, text |-> x, attr |-> "a", parent |-> q]) :
              <<doc, q>> \in {<<d, q>> \in ConfigDocsOfLen(n - 1) \X (1..(n - 1)) :
                                 q \in ancestors(d, n - 1)},
              t \in TagNames, x \in Texts}

ConfigDocs == UNION {ConfigDocsOfLen(n) : n \in 1..MaxElems}

(* Documents of entities.xml: one attribute with a value of the given set, *)
(* on the root or on its child.                                            *)
EntityDocs(values) ==
    {<<e>> : e \in [name : AttrNames, value : values, parent : {0}]}
    \cup {<<[name |-> "date", value |-> "2017", parent |-> 0], e>> :
              e \in [name : AttrNames, value : values, parent : {1}]}

RewriteInputs ==
    [entry : Entries, debug : BOOLEAN, map : {ScenarioMap}, workspace : {<<"", "tmp", "w">>},
     path : {<<"e.zip">>}, layout : Layouts, config : {ScenarioConfig},
     entities : {ScenarioEntities}]
    \cup
    [entry : {"cli"}, debug : {TRUE}, map : Maps(Usernames),
     workspace : {<<"", "tmp", "w">>}, path : {<<"e.zip">>}, layout : {Complete},
     config : ConfigDocs, entities : {ScenarioEntities}]
    \cup
    [entry : {"cli"}, debug : {TRUE}, map : Maps(Usernames),
     workspace : {<<"", "tmp", "w">>}, path : {<<"e.zip">>}, layout : {Complete},
     config : {ScenarioConfig}, entities : EntityDocs(Strings(Alphabet, MaxLen))]
    \cup
    [entry : {"cli"}, debug : {TRUE}, map : {<<>>},
     workspace : {<<"", "tmp", "w">>}, path : {<<"e.zip">>}, layout : {Complete},
     config : {ScenarioConfig},
     entities : EntityDocs(Strings(SentinelAlphabet, MaxSentinelLen))]

InitRewrite == \E inp \in RewriteInputs : InitFrom(inp)

SpecRewrite == InitRewrite /\ [][Next]_vars

---------------------------------------------------------------------------
(* What the properties speak of.                                           *)

Ran(seq) == {seq[i] : i \in DOMAIN seq}

run_ended == pc \in {"Closed", "Terminated"}

(* The export as it was given, and its pieces.                             *)
given_archive == is_zipfile(fs0, export_zip_path)
given == read(fs0, export_zip_path).members
given_data == given[<<"data", "data.zip">>].members
given_config == given[<<"config.xml">>]
given_entities == given_data[<<"entities.xml">>]
has_data == given_archive /\ <<"data", "data.zip">> \in DOMAIN given
                          /\ given[<<"data", "data.zip">>].type = "zip"
has_config == given_archive /\ <<"config.xml">> \in DOMAIN given
has_objects == has_data /\ <<"activeobjects.xml">> \in DOMAIN given_data
has_entities == has_data /\ <<"entities.xml">> \in DOMAIN given_data

rewrite_called == Ran(called) \cap {"update_config", "update_entities", "pack"} # {}

outside_workspace(f) == {p \in DOMAIN f : ~under(p, normpath(workspace))}

(* The documents given, and the documents written.                         *)
in_config == given_config.elems
in_entities == given_entities.elems
out_config == read(fs, _prepare_output_path(config_xml_path)).elems
out_entities == read(fs, _prepare_output_path(entities_xml_path)).elems

config_written == pc \in {"ConfigRewritten", "EntitiesRewritten"}
entities_written == pc = "EntitiesRewritten"

identity_attr(name) == name \in Ran(IDENTITY_ATTRS)
quote_attr(name) == name \in Ran(QUOTE_ATTRS)
config_tag(name) == name \in Ran(CONFIG_TAGS)

has_token(value, username) == Contains(value, " " \o username \o " ")
has_sentinel(value) == \E c \in {U2622, U2623, U2624} : Contains(value, c)

(* value with every user name that stands between two spaces replaced.    *)
RECURSIVE tokens_replaced_from(_, _, _, _)
tokens_replaced_from(value, username, new, i) ==
    IF i > Len(value) THEN ""
    ELSE IF /\ i > 1
            /\ i + Len(username) <= Len(value)
            /\ SubSeq(value, i - 1, i + Len(username)) = " " \o username \o " "
         THEN new \o tokens_replaced_from(value, username, new, i + Len(username))
         ELSE SubSeq(value, i, i) \o tokens_replaced_from(value, username, new, i + 1)

tokens_replaced(value, username, new) == tokens_replaced_from(value, username, new, 1)

---------------------------------------------------------------------------
(* C1: an attribute of the identity list whose value is exactly a key k of *)
(* the map is written as M[k], whatever the number of entries of the map.  *)
C1_WholeValue ==
    entities_written =>
        \A i \in DOMAIN in_entities :
            /\ i # 1
            /\ identity_attr(in_entities[i].name)
            /\ in_entities[i].value \in keys(user_name_map)
            => out_entities[i].value = get(user_name_map, in_entities[i].value)

(* C2: in an attribute of the identity list whose value is not the key k,  *)
(* every k standing between two single spaces is replaced by M[k], however *)
(* many there are, and nothing else changes.  (Stated for a map of one     *)
(* entry and a value without quotes.)                                      *)
C2_TokenCase ==
    entities_written /\ Len(user_name_map) = 1 =>
        \A i \in DOMAIN in_entities :
            /\ i # 1
            /\ identity_attr(in_entities[i].name)
            /\ in_entities[i].value # user_name_map[1][1]
            /\ ~Contains(in_entities[i].value, "'")
            => out_entities[i].value
                   = tokens_replaced(in_entities[i].value, user_name_map[1][1],
                                     user_name_map[1][2])

scenario ==
    /\ user_name_map = ScenarioMap
    /\ has_config /\ given_config = Xml(ScenarioConfig)
    /\ has_entities /\ given_entities = Xml(ScenarioEntities)

(* C3, as claimed: with {alice: bob}, <username>alice</username> becomes   *)
(* <username>bob</username>, user="alice" becomes user="bob" and           *)
(* description=" alice said 'hi' " becomes " bob said &apos;hi&apos; ".    *)
C3_Scenario ==
    scenario /\ entities_written =>
        /\ out_config[2].tag = "username" /\ out_config[2].text = "bob"
        /\ out_entities[2].name = "user" /\ out_entities[2].value = "bob"
        /\ out_entities[3].name = "description"
        /\ out_entities[3].value = " bob said &apos;hi&apos; "

(* C3, amended: ... and description=" alice said 'hi' " becomes            *)
(* " alice said &apos;hi&apos; ": both quotes are escaped, the user name   *)
(* in it is not rewritten (description is not in the identity list).       *)
C3_ScenarioQuotesOnly ==
    scenario /\ entities_written =>
        /\ out_config[2].tag = "username" /\ out_config[2].text = "bob"
        /\ out_entities[2].name = "user" /\ out_entities[2].value = "bob"
        /\ out_entities[3].name = "description"
        /\ out_entities[3].value = " alice said &apos;hi&apos; "

C3_Witness ==
    /\ scenario /\ entities_written
    /\ in_config[2].text = "alice"
    /\ in_entities[2].value = "alice"
    /\ in_entities[3].value = " alice said 'hi' "

(* What update_config may change of an element: nothing but the text.      *)
same_but_text(i) ==
    /\ out_config[i].tag = in_config[i].tag
    /\ out_config[i].attr = in_config[i].attr
    /\ out_config[i].parent = in_config[i].parent

plain(value) ==
    /\ ~Contains(value, "'")
    /\ ~has_sentinel(value)
    /\ \A k \in keys(user_name_map) : ~has_token(value, k)

quote_free(value) == ~Contains(value, "'") /\ ~Contains(value, U2624)

C6_SentinelRoundTrip ==
    entities_written /\ user_name_map = <<>> =>
        \A i \in DOMAIN in_entities :
            quote_free(in_entities[i].value)
            => out_entities[i].value = in_entities[i].value

(* C6, amended: ... for every text that holds neither U+2622 nor U+2623.   *)
C6_SentinelRoundTripNoCollision ==
    entities_written /\ user_name_map = <<>> =>
        \A i \in DOMAIN in_entities :
            /\ quote_free(in_entities[i].value)
            /\ ~Contains(in_entities[i].value, U2622)
            /\ ~Contains(in_entities[i].value, U2623)
            => out_entities[i].value = in_entities[i].value

C6_Witness ==
    /\ entities_written /\ user_name_map = <<>>
    /\ \E i \in DOMAIN in_entities :
        /\ Contains(in_entities[i].value, FF)
        /\ Contains(in_entities[i].value, CR)
        /\ ~has_sentinel(in_entities[i].value)
        /\ out_entities[i].value = in_entities[i].value

---------------------------------------------------------------------------
(* C7: once a run through main has ended, the workspace made at            *)
(* construction is deleted when debug is false and kept when debug is      *)
(* true, whether massage returned or raised.                               *)
C7_WorkspaceReleased ==
    run_ended => (exists(fs, workspace) <=> debug)

(* C8: no step writes, overwrites or deletes the file at the input path,   *)
(* and the path of the archive pack makes is never the input path.         *)
C8_InputUntouched ==
    /\ exists(fs, export_zip_path) <=> exists(fs0, export_zip_path)
    /\ exists(fs0, export_zip_path) =>
           read(fs, export_zip_path) = read(fs0, export_zip_path)
    /\ normpath(archive_name(export_zip_path)) # normpath(export_zip_path)

C8_Witness ==
    /\ pc = "Packed"
    /\ \E i \in DOMAIN export_zip_path : Contains(export_zip_path[i], ".zip")
    /\ isfile(fs, archive_name(export_zip_path))
    /\ isfile(fs, export_zip_path)

(* C9: with debug, a massage that returns has left the rewritten documents *)
(* in config.proc.xml and entities.proc.xml of the workspace, which is     *)
(* kept, beside the extracted config.xml and entities.xml, unchanged; pack *)
(* is not called and no archive is made.  Without debug the rewritten      *)
(* documents replace config.xml and entities.xml and no .proc.xml file is  *)
(* ever made.                                                              *)
C9_DiagnosticMode ==
    /\ debug /\ exc = "" /\ "update_entities" \in Ran(called) =>
           /\ isfile(fs, workspace_path(<<"config.proc.xml">>))
           /\ isfile(fs, data_path(<<"entities.proc.xml">>))
           /\ isfile(fs, config_xml_path)
           /\ isfile(fs, entities_xml_path)
           /\ read(fs, workspace_path(<<"config.proc.xml">>))
                  = Xml(config_rewritten(user_name_map, given_config.elems))
           /\ read(fs, data_path(<<"entities.proc.xml">>))
                  = Xml(entities_rewritten(user_name_map, given_entities.elems))
           /\ read(fs, config_xml_path) = given_config
           /\ read(fs, entities_xml_path) = given_entities
    /\ debug /\ run_ended => isdir(fs, workspace)
    /\ debug => /\ "pack" \notin Ran(called)
                /\ outside_workspace(fs) = outside_workspace(fs0)
    /\ ~debug /\ pc \in {"ConfigRewritten", "EntitiesRewritten"} =>
           /\ isfile(fs, config_xml_path)
           /\ read(fs, config_xml_path)
                  = Xml(config_rewritten(user_name_map, given_config.elems))
    /\ ~debug /\ pc = "EntitiesRewritten" =>
           /\ isfile(fs, entities_xml_path)
           /\ read(fs, entities_xml_path)
                  = Xml(entities_rewritten(user_name_map, given_entities.elems))
    /\ ~debug => \A p \in DOMAIN fs : \A i \in DOMAIN p : ~Contains(p[i], ".proc.xml")

C9_Witness ==
    /\ debug /\ exc = "" /\ pc = "Closed"
    /\ isfile(fs, workspace_path(<<"config.proc.xml">>))
    /\ isfile(fs, data_path(<<"entities.proc.xml">>))
    /\ read(fs, workspace_path(<<"config.proc.xml">>)) # read(fs, config_xml_path)

---------------------------------------------------------------------------
STAGES == <<"unpack", "update_config", "update_entities", "pack">>

(* The stages called so far, teardown aside.                               *)
stages_called == SelectSeq(called, LAMBDA name : name # "__exit__")

(* The stages are called in the order of massage, none twice, none before  *)
(* the one it follows; teardown is the last call; pack is called in no     *)
(* debug run and in every other run that massage has left without an       *)
(* exception.                                                              *)
stages_in_order ==
    /\ Len(stages_called) <= Len(STAGES)
    /\ stages_called = SubSeq(STAGES, 1, Len(stages_called))
    /\ \A i \in DOMAIN called : called[i] = "__exit__" => i = Len(called)
    /\ "__exit__" \in Ran(called) => massage_over \/ pc = "Closed"
    /\ "pack" \in Ran(called) => ~debug
    /\ ~debug /\ exc = "" /\ run_ended => "pack" \in Ran(called)

(* Once a stage has raised, no stage of massage is called any more.        *)
aborted_on_failure ==
    exc # "" => /\ exc' = exc
                /\ called' \in {called, Append(called, "__exit__")}

(* C11: in every run the stages are executed in the order unpack,          *)
(* update_config, update_entities, pack, teardown, each at most once and   *)
(* only after the earlier ones have completed without raising; pack is     *)
(* executed exactly when debug is false; and every run reaches Closed: a   *)
(* run whose main has nothing left to execute is in Closed.                *)
C11_PipelineOrdering ==
    /\ []stages_in_order
    /\ [][aborted_on_failure]_vars
    /\ [](run_ended => pc = "Closed")

=============================================================================
